---------------------------- MODULE Spec2Model ----------------------------
(***************************************************************************)
(* SM4 block cipher (sm4_basic.py), its T-table variant (sm4_optimized.py) *)
(* and the SM4-GCM mode built on it (sm4_gcm.py).                          *)
(*                                                                         *)
(* Data representation.  A Python `bytes` value is a sequence of numbers   *)
(* in 0..255.  A 32-bit word is the sequence of its 4 bytes, most          *)
(* significant first, and a 128-bit integer is the sequence of its 16      *)
(* bytes, most significant first (no model value exceeds 2^31).  An        *)
(* attribute that has not been assigned yet is the empty sequence.  A call *)
(* returns [exc |-> "none", val |-> v] or, when it raises,                 *)
(* [exc |-> <exception>, val |-> << >>].                                   *)
(***************************************************************************)
EXTENDS Integers, Sequences, FiniteSets, TLC

Unset == << >>

HasAttr(v) == v # << >>

Ret(v) == [exc |-> "none", val |-> v]

Raise(e) == [exc |-> e, val |-> << >>]

(***************************************************************************)
(* Bitwise operators of Python on bytes and on byte sequences.             *)
(***************************************************************************)
\* a ^ b on two 4-bit numbers: XorNibble[a + 1][b + 1]
XorNibble ==
  << << 0,  1,  2,  3,  4,  5,  6,  7,  8,  9, 10, 11, 12, 13, 14, 15>>,
     << 1,  0,  3,  2,  5,  4,  7,  6,  9,  8, 11, 10, 13, 12, 15, 14>>,
     << 2,  3,  0,  1,  6,  7,  4,  5, 10, 11,  8,  9, 14, 15, 12, 13>>,
     << 3,  2,  1,  0,  7,  6,  5,  4, 11, 10,  9,  8, 15, 14, 13, 12>>,
     << 4,  5,  6,  7,  0,  1,  2,  3, 12, 13, 14, 15,  8,  9, 10, 11>>,
     << 5,  4,  7,  6,  1,  0,  3,  2, 13, 12, 15, 14,  9,  8, 11, 10>>,
     << 6,  7,  4,  5,  2,  3,  0,  1, 14, 15, 12, 13, 10, 11,  8,  9>>,
     << 7,  6,  5,  4,  3,  2,  1,  0, 15, 14, 13, 12, 11, 10,  9,  8>>,
     << 8,  9, 10, 11, 12, 13, 14, 15,  0,  1,  2,  3,  4,  5,  6,  7>>,
     << 9,  8, 11, 10, 13, 12, 15, 14,  1,  0,  3,  2,  5,  4,  7,  6>>,
     <<10, 11,  8,  9, 14, 15, 12, 13,  2,  3,  0,  1,  6,  7,  4,  5>>,
     <<11, 10,  9,  8, 15, 14, 13, 12,  3,  2,  1,  0,  7,  6,  5,  4>>,
     <<12, 13, 14, 15,  8,  9, 10, 11,  4,  5,  6,  7,  0,  1,  2,  3>>,
     <<13, 12, 15, 14,  9,  8, 11, 10,  5,  4,  7,  6,  1,  0,  3,  2>>,
     <<14, 15, 12, 13, 10, 11,  8,  9,  6,  7,  4,  5,  2,  3,  0,  1>>,
     <<15, 14, 13, 12, 11, 10,  9,  8,  7,  6,  5,  4,  3,  2,  1,  0>> >>

\* a ^ b on two bytes
Xor8(a, b) ==
  16 * XorNibble[(a \div 16) + 1][(b \div 16) + 1]
  + XorNibble[(a % 16) + 1][(b % 16) + 1]

\* a ^ b on two 32-bit words
XorW(x, y) ==
  <<Xor8(x[1], y[1]), Xor8(x[2], y[2]), Xor8(x[3], y[3]), Xor8(x[4], y[4])>>

\* bytes([p ^ q for p, q in zip(a, b)]): zip stops at the shorter argument
RECURSIVE XorZip(_, _)
XorZip(a, b) ==
  IF a = << >> \/ b = << >> THEN << >>
  ELSE <<Xor8(Head(a), Head(b))>> \o XorZip(Tail(a), Tail(b))

Pow2(r) == CASE r = 0 -> 1 [] r = 1 -> 2 [] r = 2 -> 4 [] r = 3 -> 8
             [] r = 4 -> 16 [] r = 5 -> 32 [] r = 6 -> 64 [] r = 7 -> 128
             [] r = 8 -> 256

\* <<F(1), ..., F(16)>>
Map16(F(_)) ==
  <<F(1), F(2), F(3), F(4), F(5), F(6), F(7), F(8),
    F(9), F(10), F(11), F(12), F(13), F(14), F(15), F(16)>>

RECURSIVE Zeros(_)
Zeros(n) == IF n = 0 THEN << >> ELSE <<0>> \o Zeros(n - 1)

(***************************************************************************)
(* sm4_basic.py: the tables SM4.__init__ assigns to self.Sbox, self.FK and  *)
(* self.CK                                                                 *)
(***************************************************************************)
Sbox ==
  <<214, 144, 233, 254, 204, 225,  61, 183,  22, 182,  20, 194,  40, 251,  44,   5,
     43, 103, 154, 118,  42, 190,   4, 195, 170,  68,  19,  38,  73, 134,   6, 153,
    156,  66,  80, 244, 145, 239, 152, 122,  51,  84,  11,  67, 237, 207, 172,  98,
    228, 179,  28, 169, 201,   8, 232, 149, 128, 223, 148, 250, 117, 143,  63, 166,
     71,   7, 167, 252, 243, 115,  23, 186, 131,  89,  60,  25, 230, 133,  79, 168,
    104, 107, 129, 178, 113, 100, 218, 139, 248, 235,  15,  75, 112,  86, 157,  53,
     30,  36,  14,  94,  99,  88, 209, 162,  37,  34, 124,  59,   1,  13,  45,   2,
     31,  85, 130, 213,  64, 199,  49, 161, 116,   3, 247, 242, 206, 249,  97,  21,
    160,  56, 224,  65, 127,   0,  46, 238, 184,  86,  12, 188, 210, 121,  32, 159,
    180,  91, 106, 203, 190,  57,  74,  76,  88,  39,  49, 214,  30,  20, 108,  72,
    151, 194,  10, 241, 110,  61,  41,  43,   7,  91, 187,  67, 150,  66,   6, 143,
     12, 125,  55,  33,  18, 122,  96,  89, 203, 204, 131,  62,  11,  73,   3, 240,
     19, 138, 157, 129,  95, 219, 164,  69, 155, 115,  40,  32, 149, 102, 148,  59,
      9, 227, 111,  87,  68,  92,  54,   2, 224,   1,  17, 114, 144, 216, 132,  16,
    135, 236,  31, 136,   5,  90, 101, 137,  81, 146,  28, 117, 202,  29,   4,  47,
     42,  80, 134, 154,  27, 123,  70,  71, 152, 163, 109,  35,  15,  94, 126, 193 >>

FK ==
  << <<163, 177, 186, 198>>,
     <<86, 170, 51, 80>>,
     <<103, 125, 145, 151>>,
     <<178, 112, 34, 220>> >>

CK ==
  << <<0, 7, 14, 21>>, <<28, 35, 42, 49>>,
     <<56, 63, 70, 77>>, <<84, 91, 98, 105>>,
     <<112, 119, 126, 133>>, <<140, 147, 154, 161>>,
     <<168, 175, 182, 189>>, <<196, 203, 210, 217>>,
     <<224, 231, 238, 245>>, <<252, 3, 10, 17>>,
     <<24, 31, 38, 45>>, <<52, 59, 66, 73>>,
     <<80, 87, 94, 101>>, <<108, 115, 122, 129>>,
     <<136, 143, 150, 157>>, <<164, 171, 178, 185>>,
     <<192, 199, 206, 213>>, <<220, 227, 234, 241>>,
     <<248, 255, 6, 13>>, <<20, 27, 34, 41>>,
     <<48, 55, 62, 69>>, <<76, 83, 90, 97>>,
     <<104, 111, 118, 125>>, <<132, 139, 146, 153>>,
     <<160, 167, 174, 181>>, <<188, 195, 202, 209>>,
     <<216, 223, 230, 237>>, <<244, 251, 2, 9>>,
     <<16, 23, 30, 37>>, <<44, 51, 58, 65>>,
     <<72, 79, 86, 93>>, <<100, 107, 114, 121>> >>

(***************************************************************************)
(* sm4_basic.py: SM4                                                       *)
(***************************************************************************)
\* ((x << n) & 0xFFFFFFFF) | ((x >> (32 - n)) & 0xFFFFFFFF) on a 32-bit x
_rotate_left(x, n) ==
  LET q == n \div 8
      r == n % 8
      B(i) == x[((i + q) % 4) + 1]
      C(i) == ((B(i) * Pow2(r)) % 256) + (B(i + 1) \div Pow2(8 - r))
  IN  <<C(0), C(1), C(2), C(3)>>

_sbox(self, x) == self.Sbox[x + 1]

\* x ^ rotl(x, 2) ^ rotl(x, 10) ^ rotl(x, 18) ^ rotl(x, 24)
LinearL(x) ==
  XorW(XorW(XorW(XorW(x, _rotate_left(x, 2)), _rotate_left(x, 10)),
            _rotate_left(x, 18)), _rotate_left(x, 24))

SM4_t_function(self, x) ==
  LinearL(<<_sbox(self, x[1]), _sbox(self, x[2]),
            _sbox(self, x[3]), _sbox(self, x[4])>>)

(***************************************************************************)
(* sm4_optimized.py: SM4Optimized                                          *)
(***************************************************************************)
\* s << 24, s << 16, s << 8, s for pos = 0, 1, 2, 3
ByteAt(s, pos) ==
  CASE pos = 0 -> <<s, 0, 0, 0>> [] pos = 1 -> <<0, s, 0, 0>>
    [] pos = 2 -> <<0, 0, s, 0>> [] pos = 3 -> <<0, 0, 0, s>>

\* the entries i, i + 1, ..., 16 * (i \div 16) + 15 of the table of position pos
RECURSIVE TableRow(_, _, _)
TableRow(self, pos, i) ==
  IF i % 16 = 15 THEN <<LinearL(ByteAt(_sbox(self, i), pos))>>
  ELSE <<LinearL(ByteAt(_sbox(self, i), pos))>> \o TableRow(self, pos, i + 1)

\* the entries from 16 * r on of the table of position pos
RECURSIVE TableRows(_, _, _)
TableRows(self, pos, r) ==
  IF r = 16 THEN << >>
  ELSE TableRow(self, pos, 16 * r) \o TableRows(self, pos, r + 1)

\* T_table[pos][i] of the source is T_table[pos + 1][i + 1] here
_precompute_tables(self) ==
  <<TableRows(self, 0, 0), TableRows(self, 1, 0),
    TableRows(self, 2, 0), TableRows(self, 3, 0)>>

\* the table lookup with the second byte looked up in the first table
SM4Optimized_t_function_table0(self, x) ==
  IF ~HasAttr(self.T_table) THEN Raise("AttributeError")
  ELSE Ret(XorW(XorW(XorW(self.T_table[1][x[1] + 1],
                          self.T_table[1][x[2] + 1]),
                     self.T_table[3][x[3] + 1]),
                self.T_table[4][x[4] + 1]))

SM4Optimized_t_function(self, x) ==
  IF ~HasAttr(self.T_table) THEN Raise("AttributeError")
  ELSE Ret(XorW(XorW(XorW(self.T_table[1][x[1] + 1], self.T_table[2][x[2] + 1]),
                     self.T_table[3][x[3] + 1]), self.T_table[4][x[4] + 1]))

\* self._t_function(x): the method of the object's class
_t_function(self, x) ==
  IF self.cls = "SM4Optimized" THEN SM4Optimized_t_function(self, x)
  ELSE Ret(SM4_t_function(self, x))

\* the four big-endian words of a 16-byte value
Words(b) ==
  <<SubSeq(b, 1, 4), SubSeq(b, 5, 8), SubSeq(b, 9, 12), SubSeq(b, 13, 16)>>

RECURSIVE KeyRounds(_, _, _)
\* round_keys.append(rk); K[0], K[1], K[2], K[3] = K[1], K[2], K[3], rk
KeyAppend(self, K, i, rk) ==
  <<rk>> \o KeyRounds(self, <<K[2], K[3], K[4], rk>>, i + 1)

\* the iterations i, ..., 31 of the loop of _generate_round_keys
KeyRounds(self, K, i) ==
  IF i = 32 THEN << >>
  ELSE KeyAppend(self, K, i,
         XorW(K[1], _t_function(self,
                XorW(XorW(XorW(K[2], K[3]), K[4]), self.CK[i + 1])).val))

\* K[i] ^= self.FK[i]
KeyWords(self, W) ==
  <<XorW(W[1], self.FK[1]), XorW(W[2], self.FK[2]),
    XorW(W[3], self.FK[3]), XorW(W[4], self.FK[4])>>

_generate_round_keys(self) ==
  IF self.cls = "SM4Optimized" /\ ~HasAttr(self.T_table)
  THEN Raise("AttributeError")
  ELSE Ret(KeyRounds(self, KeyWords(self, Words(self.key)), 0))

RECURSIVE Rounds(_, _, _, _)
Rounds(self, X, i, rev) ==
  IF i = 32 THEN X
  ELSE LET rk == self.round_keys[IF rev THEN 32 - i ELSE i + 1]
           nw == XorW(X[1], _t_function(self,
                        XorW(XorW(XorW(X[2], X[3]), X[4]), rk)).val)
       IN  Rounds(self, <<X[2], X[3], X[4], nw>>, i + 1, rev)

\* (X[3] << 96) | (X[2] << 64) | (X[1] << 32) | X[0], as 16 bytes
ReverseWords(X) == X[4] \o X[3] \o X[2] \o X[1]

encrypt_block(self, plaintext) ==
  IF Len(plaintext) # 16 THEN Raise("ValueError: block length")
  ELSE IF self.cls = "SM4Optimized" /\ ~HasAttr(self.T_table)
       THEN Raise("AttributeError")
       ELSE Ret(ReverseWords(Rounds(self, Words(plaintext), 0, FALSE)))

\* decrypt_block with the round keys consumed in encryption order
decrypt_block_forward(self, ciphertext) ==
  IF Len(ciphertext) # 16 THEN Raise("ValueError: block length")
  ELSE IF self.cls = "SM4Optimized" /\ ~HasAttr(self.T_table)
       THEN Raise("AttributeError")
  ELSE Ret(ReverseWords(Rounds(self, Words(ciphertext), 0, FALSE)))

decrypt_block(self, ciphertext) ==
  IF Len(ciphertext) # 16 THEN Raise("ValueError: block length")
  ELSE IF self.cls = "SM4Optimized" /\ ~HasAttr(self.T_table)
       THEN Raise("AttributeError")
       ELSE Ret(ReverseWords(Rounds(self, Words(ciphertext), 0, TRUE)))

\* no object: a constructor that raised returns none
NoObject ==
  [cls |-> "none", key |-> Unset, Sbox |-> Unset, FK |-> Unset, CK |-> Unset,
   round_keys |-> Unset, T_table |-> Unset]

\* the object of class cls once SM4.__init__ has assigned key, Sbox, FK, CK
NewObject(cls, key) ==
  [NoObject EXCEPT !.cls = cls, !.key = key, !.Sbox = Sbox, !.FK = FK,
                   !.CK = CK]

\* self.round_keys = rk, unless _generate_round_keys raised
SetRoundKeys(self, rk) ==
  IF rk.exc # "none" THEN Raise(rk.exc)
  ELSE Ret([self EXCEPT !.round_keys = rk.val])

\* SM4.__init__(self, key) on the new object self of class cls
SM4_init_object(self) == SetRoundKeys(self, _generate_round_keys(self))

SM4_init(cls, key) ==
  IF Len(key) # 16 THEN Raise("ValueError: key length")
  ELSE SM4_init_object(NewObject(cls, key))

\* self._precompute_tables(), unless super().__init__(key) raised
SetTables(r) ==
  IF r.exc # "none" THEN r
  ELSE Ret([r.val EXCEPT !.T_table = _precompute_tables(r.val)])

\* SM4Optimized.__init__(self, key)
SM4Optimized_init(key) == SetTables(SM4_init("SM4Optimized", key))

(***************************************************************************)
(* sm4_gcm.py: SM4GCM                                                      *)
(***************************************************************************)
\* a ^ b on two 128-bit integers
Xor128(a, b) == LET F(i) == Xor8(a[i], b[i]) IN Map16(F)

\* (y << 1) & (2^128 - 1); the bit shifted out is y[1] \div 128
Shl128(y) ==
  LET F(i) == ((y[i] * 2) % 256) + (IF i = 16 THEN 0 ELSE y[i + 1] \div 128)
  IN  Map16(F)

\* y ^= p once y >> 128 is set: p = 0x87 | (1 << 128)
ReduceP(y) == [y EXCEPT ![16] = Xor8(y[16], 135)]

\* one iteration of the loop of _galois_multiply: xbit is (x >> i) & 1
MulStep(y, xbit, h) ==
  LET s == Shl128(y)
      t == IF xbit = 1 THEN Xor128(s, h) ELSE s
  IN  IF y[1] \div 128 = 1 THEN ReduceP(t) ELSE t

\* the iterations i = 8 * k + b, ..., 8 * k of the loop, xb the byte k of x
RECURSIVE MulBits(_, _, _, _)
MulBits(y, xb, h, b) ==
  IF b > 7 THEN y
  ELSE MulStep(MulBits(y, xb, h, b + 1), (xb \div Pow2(b)) % 2, h)

\* the loop over x from its top byte on; st is <<y, number of bytes done>>
RECURSIVE MulBytes(_, _, _)
MulBytes(st, x, h) ==
  IF st[2] = 16 THEN st[1]
  ELSE MulBytes(<<MulBits(st[1], x[st[2] + 1], h, 0), st[2] + 1>>, x, h)

_galois_multiply(x, h) == MulBytes(<<Zeros(16), 0>>, x, h)

\* block + b'\x00' * (16 - len(block))
PadBlock(block) == block \o Zeros(16 - Len(block))

\* the 16-byte blocks of data[i:i + 16], i = 0, 16, ..., the last one padded
RECURSIVE Blocks16(_)
Blocks16(data) ==
  IF data = << >> THEN << >>
  ELSE IF Len(data) <= 16 THEN <<PadBlock(data)>>
       ELSE <<SubSeq(data, 1, 16)>> \o Blocks16(SubSeq(data, 17, Len(data)))

\* a length below 2^28 times 8, as a 64-bit big-endian integer
Bits64(n) ==
  <<0, 0, 0, 0, (n \div 2097152) % 256, (n \div 8192) % 256,
    (n \div 32) % 256, (n * 8) % 256>>

\* for block in blocks: y ^= block; y = multiply(y, h); st is <<y, blocks left>>
RECURSIVE GhashFold(_, _)
GhashFold(st, h) ==
  IF st[2] = << >> THEN st[1]
  ELSE GhashFold(<<_galois_multiply(Xor128(st[1], Head(st[2])), h),
                   Tail(st[2])>>, h)

\* GHASH over the ciphertext and its length alone
_ghash_ciphertext_only(auth_data, ciphertext, H) ==
  GhashFold(<<Zeros(16),
              Blocks16(ciphertext)
                \o <<Bits64(0) \o Bits64(Len(ciphertext))>>>>, H)

_ghash(auth_data, ciphertext, H) ==
  LET len_block == Bits64(Len(auth_data)) \o Bits64(Len(ciphertext))
      blocks == Blocks16(auth_data) \o Blocks16(ciphertext) \o <<len_block>>
  IN  GhashFold(<<Zeros(16), blocks>>, H)

\* int.from_bytes(counter[12:16]) + 1, then to_bytes(4): OverflowError at 2^32
_increment_counter(counter) ==
  LET c == SubSeq(counter, 13, 16)
      n4 == (c[4] + 1) % 256
      n3 == IF c[4] = 255 THEN (c[3] + 1) % 256 ELSE c[3]
      n2 == IF c[4] = 255 /\ c[3] = 255 THEN (c[2] + 1) % 256 ELSE c[2]
      n1 == IF c[4] = 255 /\ c[3] = 255 /\ c[2] = 255 THEN c[1] + 1 ELSE c[1]
  IN  IF n1 = 256 THEN Raise("OverflowError")
      ELSE Ret(SubSeq(counter, 1, 12) \o <<n1, n2, n3, n4>>)

_constant_time_compare(a, b) ==
  IF Len(a) # Len(b) THEN FALSE
  ELSE \A i \in 1..Len(a) : Xor8(a[i], b[i]) = 0

\* the session before __init__ has assigned initial_counter or H
NoSession ==
  [sm4 |-> NoObject, tag_length |-> 0, nonce |-> Unset,
   initial_counter |-> Unset, H |-> Unset]

_generate_initial_counter(self) ==
  IF Len(self.nonce) = 12 THEN Ret(self.nonce \o <<0, 0, 0, 1>>)
  ELSE IF ~HasAttr(self.H) THEN Raise("AttributeError")
       ELSE Ret(_ghash(self.nonce, << >>, self.H))

\* self.initial_counter = ic, then self.H = h, unless one of them raised
SetCounterAndH(self, ic, h) ==
  IF ic.exc # "none" THEN Raise(ic.exc)
  ELSE IF h.exc # "none" THEN Raise(h.exc)
       ELSE Ret([self EXCEPT !.initial_counter = ic.val, !.H = h.val])

\* lines 25 and 28 of SM4GCM.__init__ on the session self, H not assigned
SM4GCM_init_session(self) ==
  SetCounterAndH(self, _generate_initial_counter(self),
                 encrypt_block(self.sm4, Zeros(16)))

\* SM4GCM.__init__ from line 16 on; made is the outcome of SM4Optimized(key)
\* of line 15.  A nonce of None becomes os.urandom(12), one of the 12-byte
\* nonces.
SM4GCM_init(made, nonce, tag_length) ==
  IF made.exc # "none" THEN Raise(made.exc)
  ELSE SM4GCM_init_session([NoSession EXCEPT !.sm4 = made.val,
                                             !.tag_length = tag_length,
                                             !.nonce = nonce])

\* SM4GCM(key, nonce, tag_length)
SM4GCM_new(key, nonce, tag_length) ==
  SM4GCM_init(SM4Optimized_init(key), nonce, tag_length)

\* tag[:n] for n >= 0
Slice(s, n) == SubSeq(s, 1, IF n < Len(s) THEN n ELSE Len(s))

\* data[i:i + 16]
Chunk(data, i) ==
  SubSeq(data, i + 1, IF i + 16 < Len(data) THEN i + 16 ELSE Len(data))

(***************************************************************************)
(* SM4GCM.encrypt, one statement group at a time.  A call is a frame: pc   *)
(* is the group to run next ("ctr": the loop; "done": returned; "raised":  *)
(* left by an exception), the other fields are the locals of the call.     *)
(***************************************************************************)
NoEncrypt ==
  [pc |-> "idle", plaintext |-> << >>, auth_data |-> << >>,
   ciphertext |-> << >>, counter |-> << >>, i |-> 0, tag |-> << >>,
   exc |-> "none"]

\* ciphertext = b''; counter = self.initial_counter
encrypt_begin(self, plaintext, auth_data) ==
  [NoEncrypt EXCEPT !.pc = "ctr", !.plaintext = plaintext,
                    !.auth_data = auth_data,
                    !.counter = self.initial_counter]

\* the rest of an iteration, given its keystream block and the next counter
encrypt_advance(f, keystream, next) ==
  IF keystream.exc # "none" THEN [f EXCEPT !.pc = "raised",
                                           !.exc = keystream.exc]
  ELSE IF next.exc # "none" THEN [f EXCEPT !.pc = "raised", !.exc = next.exc]
  ELSE [f EXCEPT !.ciphertext = @ \o XorZip(Chunk(f.plaintext, f.i),
                                            keystream.val),
                 !.counter = next.val,
                 !.i = @ + 16]

\* one iteration of "for i in range(0, len(plaintext), 16)"
encrypt_loop(self, f) ==
  encrypt_advance(f, encrypt_block(self.sm4, f.counter),
                  _increment_counter(f.counter))

\* the tag returned without the mask E(initial_counter)
encrypt_return_unmasked(self, f, ghash, mask) ==
  IF mask.exc # "none" THEN [f EXCEPT !.pc = "raised", !.exc = mask.exc]
  ELSE [f EXCEPT !.pc = "done", !.tag = Slice(ghash, self.tag_length)]

\* return ciphertext, tag[:self.tag_length], given GHASH and the mask
encrypt_return(self, f, ghash, mask) ==
  IF mask.exc # "none" THEN [f EXCEPT !.pc = "raised", !.exc = mask.exc]
  ELSE [f EXCEPT !.pc = "done",
                 !.tag = Slice(XorZip(ghash, mask.val), self.tag_length)]

\* the statements after the loop
encrypt_finish(self, f) ==
  encrypt_return(self, f, _ghash(f.auth_data, f.ciphertext, self.H),
                 encrypt_block(self.sm4, self.initial_counter))

(***************************************************************************)
(* SM4GCM.decrypt, one statement group at a time.  cmp is the outcome of   *)
(* the tag comparison ("none" before it), nks the keystream blocks         *)
(* generated so far.                                                       *)
(***************************************************************************)
NoDecrypt ==
  [pc |-> "idle", ciphertext |-> << >>, tag |-> << >>, auth_data |-> << >>,
   tag_decrypted |-> << >>, computed_tag |-> << >>, cmp |-> "none",
   plaintext |-> << >>, counter |-> << >>, i |-> 0, nks |-> 0,
   exc |-> "none"]

decrypt_begin(ciphertext, tag, auth_data) ==
  [NoDecrypt EXCEPT !.pc = "length", !.ciphertext = ciphertext,
                    !.tag = tag, !.auth_data = auth_data]

\* decrypt without the length test
decrypt_check_length_absent(self, f) == [f EXCEPT !.pc = "unmask"]

\* if len(tag) != self.tag_length: raise ValueError
decrypt_check_length(self, f) ==
  IF Len(f.tag) # self.tag_length
  THEN [f EXCEPT !.pc = "raised", !.exc = "ValueError: tag length"]
  ELSE [f EXCEPT !.pc = "unmask"]

\* tag_decrypted, padded with zero bytes to 16, given the mask
decrypt_padded(f, mask) ==
  IF mask.exc # "none" THEN [f EXCEPT !.pc = "raised", !.exc = mask.exc]
  ELSE [f EXCEPT !.pc = "ghash",
                 !.tag_decrypted = PadBlock(XorZip(f.tag, mask.val))]

\* tag_encrypted = encrypt_block(initial_counter); tag_decrypted = ...
decrypt_unmask(self, f) ==
  decrypt_padded(f, encrypt_block(self.sm4, self.initial_counter))

\* computed_tag = self._ghash(auth_data, ciphertext, self.H)
decrypt_ghash(self, f) ==
  [f EXCEPT !.pc = "compare",
            !.computed_tag = _ghash(f.auth_data, f.ciphertext, self.H)]

\* decrypt that notes the outcome of the comparison and decrypts anyway
decrypt_compare_deferred(self, f) ==
  [f EXCEPT !.pc = "ctr",
            !.cmp = IF _constant_time_compare(f.tag_decrypted,
                                              f.computed_tag)
                    THEN "equal" ELSE "differ",
            !.counter = self.initial_counter]

\* if not _constant_time_compare(...): raise; plaintext = b''; counter = ...
decrypt_compare(self, f) ==
  IF ~_constant_time_compare(f.tag_decrypted, f.computed_tag)
  THEN [f EXCEPT !.pc = "raised", !.cmp = "differ",
                 !.exc = "ValueError: authentication"]
  ELSE [f EXCEPT !.pc = "ctr", !.cmp = "equal",
                 !.counter = self.initial_counter]

\* the rest of an iteration, given its keystream block and the next counter
decrypt_advance(f, keystream, next) ==
  IF keystream.exc # "none" THEN [f EXCEPT !.pc = "raised",
                                           !.exc = keystream.exc]
  ELSE IF next.exc # "none"
       THEN [f EXCEPT !.pc = "raised", !.exc = next.exc, !.nks = @ + 1]
  ELSE [f EXCEPT !.plaintext = @ \o XorZip(Chunk(f.ciphertext, f.i),
                                           keystream.val),
                 !.counter = next.val,
                 !.i = @ + 16,
                 !.nks = @ + 1]

\* one iteration of "for i in range(0, len(ciphertext), 16)"
decrypt_loop(self, f) ==
  decrypt_advance(f, encrypt_block(self.sm4, f.counter),
                  _increment_counter(f.counter))

\* return plaintext
decrypt_return(f) == [f EXCEPT !.pc = "done"]

(***************************************************************************)
(* Inputs.  Key1 with Block1 and Cipher1 is the first vector of test.py,   *)
(* Key2 with Block2 the second.                                            *)
(***************************************************************************)
Key1 ==
  <<1, 35, 69, 103, 137, 171, 205, 239, 254, 220, 186, 152, 118, 84, 50, 16>>

Key2 == <<0, 1, 2, 3, 4, 5, 6, 7, 8, 9, 10, 11, 12, 13, 14, 15>>

Block1 == Key1

Cipher1 ==
  <<104, 30, 223, 52, 210, 6, 150, 94, 134, 179, 233, 79, 83, 110, 66, 70>>

Block2 ==
  <<0, 17, 34, 51, 68, 85, 102, 119, 136, 153, 170, 187, 204, 221, 238, 255>>

Keys == {Key1, Key2}

\* a key of 15 bytes
ShortKey == SubSeq(Key2, 1, 15)

\* 16-byte blocks, and one of 15 bytes
BlockInputs == {Block1, Block2, Cipher1, SubSeq(Block2, 1, 15)}

Nonce12 == <<202, 254, 186, 190, 250, 206, 219, 173, 222, 202, 248, 136>>

NonceInputs == {Nonce12, SubSeq(Nonce12, 1, 8), Nonce12 \o <<1, 2, 3, 4>>}

TagLengths == {4, 16}

\* the block calls of one behaviour
MaxCalls == 2

\* the longest plaintext of a GCM call, in blocks
MaxBlocks == 2

\* the first n bytes of a fixed message
Message(n) == SubSeq([i \in 1..(16 * MaxBlocks + 1) |-> (37 * i + 11) % 256],
                     1, n)

Plaintexts ==
  {Message(n) : n \in {0, 1, 16 * (MaxBlocks - 1), 16 * (MaxBlocks - 1) + 1}}

\* the first n bytes of a fixed header
Header(n) == SubSeq([i \in 1..16 |-> (201 * i + 90) % 256], 1, n)

AuthDatas == {Header(n) : n \in {0, 3, 16}}

\* the words a T function is applied to: every byte value at every position
RoundInputs ==
  {<<b, (b + 85) % 256, (3 * b + 7) % 256, 255 - b>> : b \in 0..255}

VARIABLES
  obj,      \* the cipher object under test, NoObject before construction
  new,      \* the constructor call made: class, arguments, exception
  last,     \* the last block call: operation, argument, result, exception
  prev,     \* the block call before it
  ncalls,   \* the block calls made so far
  tcall,    \* the last T function call: word, basic result, table result
  sender,   \* the SM4GCM session that encrypts
  receiver, \* the SM4GCM session that decrypts
  enc,      \* the frame of sender.encrypt
  dec,      \* the frame of receiver.decrypt
  wire      \* the message between them

blockVars == <<last, prev, ncalls>>
gcmVars == <<sender, receiver, enc, dec, wire>>
vars == <<obj, new, last, prev, ncalls, tcall, sender, receiver, enc, dec,
          wire>>

NoCall == [op |-> "none", arg |-> << >>, ret |-> << >>, exc |-> "none"]

NoNew == [cls |-> "none", key |-> << >>, nonce |-> << >>, exc |-> "none"]

NoTCall == [x |-> << >>, basic |-> Raise("none"), table |-> Raise("none")]

NoWire == [sent |-> FALSE, ciphertext |-> << >>, tag |-> << >>,
           auth_data |-> << >>, flipped |-> "none"]

\* nothing constructed, nothing called
Idle ==
  /\ new = NoNew
  /\ last = NoCall
  /\ prev = NoCall
  /\ ncalls = 0
  /\ tcall = NoTCall
  /\ sender = NoSession
  /\ receiver = NoSession
  /\ enc = NoEncrypt
  /\ dec = NoDecrypt
  /\ wire = NoWire

(***************************************************************************)
(* Spec: the constructors as they are written, and block calls on the      *)
(* object they return.                                                     *)
(***************************************************************************)
Init == obj = NoObject /\ Idle

\* the outcome r of a constructor call
Constructed(cls, key, nonce, r) ==
  /\ obj' = IF r.exc = "none" THEN r.val ELSE NoObject
  /\ new' = [cls |-> cls, key |-> key, nonce |-> nonce, exc |-> r.exc]
  /\ UNCHANGED <<blockVars, tcall, gcmVars>>

\* SM4Basic(key)
New_SM4(key) ==
  /\ new.cls = "none"
  /\ Constructed("SM4", key, << >>, SM4_init("SM4", key))

\* SM4Optimized(key)
New_SM4Optimized(key) ==
  /\ new.cls = "none"
  /\ Constructed("SM4Optimized", key, << >>, SM4Optimized_init(key))

\* the cipher object of a session, if the session was made
CipherOf(r) == IF r.exc = "none" THEN Ret(r.val.sm4) ELSE Raise(r.exc)

\* SM4GCM(key, nonce, tag_length); obj is the cipher object of the session
New_SM4GCM(key, nonce, tag_length) ==
  /\ new.cls = "none"
  /\ Constructed("SM4GCM", key, nonce,
                 CipherOf(SM4GCM_new(key, nonce, tag_length)))

\* the outcome r of the block call op(b)
Called(op, b, r) ==
  /\ last' = [op |-> op, arg |-> b, ret |-> r.val, exc |-> r.exc]
  /\ prev' = last
  /\ ncalls' = ncalls + 1
  /\ UNCHANGED <<obj, new, tcall, gcmVars>>

\* obj.encrypt_block(b)
EncryptBlock(b) ==
  /\ obj.cls # "none"
  /\ ncalls < MaxCalls
  /\ Called("encrypt_block", b, encrypt_block(obj, b))

\* obj.decrypt_block(b)
DecryptBlock(b) ==
  /\ obj.cls # "none"
  /\ ncalls < MaxCalls
  /\ Called("decrypt_block", b, decrypt_block(obj, b))

\* a caller passes a block of its own or the bytes the last call returned
Args == BlockInputs \cup (IF last.exc = "none" /\ last.op # "none"
                          THEN {last.ret} ELSE {})

Next ==
  \/ \E key \in Keys \cup {ShortKey} : New_SM4(key)
  \/ \E key \in Keys \cup {ShortKey} : New_SM4Optimized(key)
  \/ \E key \in Keys, nonce \in NonceInputs, t \in TagLengths :
       New_SM4GCM(key, nonce, t)
  \/ \E b \in Args : EncryptBlock(b)
  \/ \E b \in Args : DecryptBlock(b)

Spec == Init /\ [][Next]_vars

(***************************************************************************)
(* SpecT: the two T functions on one object.  The object holds what        *)
(* SM4.__init__ has assigned when it asks for the round keys; the table    *)
(* build and the T functions are applied to it directly.                   *)
(***************************************************************************)
InitT ==
  /\ obj \in {NewObject("SM4Optimized", key) : key \in Keys}
  /\ Idle

\* self._precompute_tables()
PrecomputeTables ==
  /\ ~HasAttr(obj.T_table)
  /\ tcall = NoTCall
  /\ obj' = [obj EXCEPT !.T_table = _precompute_tables(obj)]
  /\ UNCHANGED <<new, blockVars, tcall, gcmVars>>

\* SM4._t_function(obj, x) and SM4Optimized._t_function(obj, x)
TFunction(x) ==
  /\ tcall = NoTCall
  /\ tcall' = [x |-> x, basic |-> Ret(SM4_t_function(obj, x)),
               table |-> SM4Optimized_t_function(obj, x)]
  /\ UNCHANGED <<obj, new, blockVars, gcmVars>>

NextT ==
  \/ PrecomputeTables
  \/ \E x \in RoundInputs : TFunction(x)

SpecT == InitT /\ [][NextT]_vars

(***************************************************************************)
(* SpecGCM: the methods of SM4GCM on two sessions that share key and       *)
(* nonce.  A session holds what SM4GCM.__init__ assigns, over a cipher     *)
(* object that holds every attribute SM4Optimized.__init__ assigns (the    *)
(* tables in place when the round keys are generated); Spec has the        *)
(* constructor call SM4GCM(key, nonce, tag_length) as it is written.       *)
(***************************************************************************)
WithTables(self) == [self EXCEPT !.T_table = _precompute_tables(self)]

SM4Optimized_attrs(key) ==
  SM4_init_object(WithTables(NewObject("SM4Optimized", key)))

InitGCM == obj = NoObject /\ Idle

\* the outcomes s and r of the two session constructions
Paired(key, nonce, s, r) ==
  /\ new' = [cls |-> "SM4GCM", key |-> key, nonce |-> nonce,
             exc |-> IF s.exc # "none" THEN s.exc ELSE r.exc]
  /\ sender' = IF s.exc = "none" /\ r.exc = "none" THEN s.val ELSE NoSession
  /\ receiver' = IF s.exc = "none" /\ r.exc = "none" THEN r.val
                 ELSE NoSession
  /\ UNCHANGED <<obj, blockVars, tcall, enc, dec, wire>>

\* both ends run SM4GCM.__init__ with the same key and nonce
Setup(key, nonce, ts, tr) ==
  /\ new.cls = "none"
  /\ Paired(key, nonce,
            SM4GCM_init(SM4Optimized_attrs(key), nonce, ts),
            SM4GCM_init(SM4Optimized_attrs(key), nonce, tr))

\* sender.encrypt(plaintext, auth_data) is entered
Encrypt(plaintext, auth_data) ==
  /\ HasAttr(sender.H)
  /\ enc.pc = "idle"
  /\ enc' = encrypt_begin(sender, plaintext, auth_data)
  /\ UNCHANGED <<obj, new, blockVars, tcall, sender, receiver, dec, wire>>

EncryptLoop ==
  /\ enc.pc = "ctr"
  /\ enc.i < Len(enc.plaintext)
  /\ enc' = encrypt_loop(sender, enc)
  /\ UNCHANGED <<obj, new, blockVars, tcall, sender, receiver, dec, wire>>

EncryptFinish ==
  /\ enc.pc = "ctr"
  /\ enc.i >= Len(enc.plaintext)
  /\ enc' = encrypt_finish(sender, enc)
  /\ UNCHANGED <<obj, new, blockVars, tcall, sender, receiver, dec, wire>>

\* the caller sends what encrypt returned, with the header it passed
Send ==
  /\ enc.pc = "done"
  /\ ~wire.sent
  /\ wire' = [sent |-> TRUE, ciphertext |-> enc.ciphertext, tag |-> enc.tag,
              auth_data |-> enc.auth_data, flipped |-> "none"]
  /\ UNCHANGED <<obj, new, blockVars, tcall, sender, receiver, enc, dec>>

\* s with bit number bit of its byte pos inverted
FlipBit(s, pos, bit) == [s EXCEPT ![pos] = Xor8(@, Pow2(bit))]

\* one bit of one field of the message changes on the way
Flip(field, last_byte) ==
  /\ wire.sent
  /\ wire.flipped = "none"
  /\ dec.pc = "idle"
  /\ wire[field] # << >>
  /\ wire' = [wire EXCEPT
                ![field] = IF last_byte THEN FlipBit(@, Len(@), 0)
                           ELSE FlipBit(@, 1, 7),
                !.flipped = field]
  /\ UNCHANGED <<obj, new, blockVars, tcall, sender, receiver, enc, dec>>

\* receiver.decrypt(ciphertext, tag, auth_data) is entered
Decrypt ==
  /\ wire.sent
  /\ dec.pc = "idle"
  /\ dec' = decrypt_begin(wire.ciphertext, wire.tag, wire.auth_data)
  /\ UNCHANGED <<obj, new, blockVars, tcall, sender, receiver, enc, wire>>

DecryptCheckLength ==
  /\ dec.pc = "length"
  /\ dec' = decrypt_check_length(receiver, dec)
  /\ UNCHANGED <<obj, new, blockVars, tcall, sender, receiver, enc, wire>>

DecryptUnmask ==
  /\ dec.pc = "unmask"
  /\ dec' = decrypt_unmask(receiver, dec)
  /\ UNCHANGED <<obj, new, blockVars, tcall, sender, receiver, enc, wire>>

DecryptGhash ==
  /\ dec.pc = "ghash"
  /\ dec' = decrypt_ghash(receiver, dec)
  /\ UNCHANGED <<obj, new, blockVars, tcall, sender, receiver, enc, wire>>

DecryptCompare ==
  /\ dec.pc = "compare"
  /\ dec' = decrypt_compare(receiver, dec)
  /\ UNCHANGED <<obj, new, blockVars, tcall, sender, receiver, enc, wire>>

DecryptLoop ==
  /\ dec.pc = "ctr"
  /\ dec.i < Len(dec.ciphertext)
  /\ dec' = decrypt_loop(receiver, dec)
  /\ UNCHANGED <<obj, new, blockVars, tcall, sender, receiver, enc, wire>>

DecryptReturn ==
  /\ dec.pc = "ctr"
  /\ dec.i >= Len(dec.ciphertext)
  /\ dec' = decrypt_return(dec)
  /\ UNCHANGED <<obj, new, blockVars, tcall, sender, receiver, enc, wire>>

NextGCM ==
  \/ \E key \in Keys, nonce \in NonceInputs, ts \in TagLengths,
        tr \in TagLengths : Setup(key, nonce, ts, tr)
  \/ \E plaintext \in Plaintexts, auth_data \in AuthDatas :
       Encrypt(plaintext, auth_data)
  \/ EncryptLoop
  \/ EncryptFinish
  \/ Send
  \/ \E field \in {"ciphertext", "tag", "auth_data"}, last_byte \in BOOLEAN :
       Flip(field, last_byte)
  \/ Decrypt
  \/ DecryptCheckLength
  \/ DecryptUnmask
  \/ DecryptGhash
  \/ DecryptCompare
  \/ DecryptLoop
  \/ DecryptReturn

SpecGCM == InitGCM /\ [][NextGCM]_vars

(***************************************************************************)
(* SpecCtr: _increment_counter on counter values, and on its own results   *)
(* as the CTR loops apply it.                                              *)
(***************************************************************************)
\* counters whose last four bytes are at, next to and far from a carry
CounterInputs ==
  {prefix \o <<a, b, c, d>> :
     prefix \in {Nonce12, Zeros(12)},
     a \in {0, 127, 255}, b \in {0, 255}, c \in {0, 1, 255},
     d \in {0, 254, 255}}

InitCtr == obj = NoObject /\ Idle

\* self._increment_counter(counter)
IncrementCounter(counter) ==
  /\ last.op = "none"
  /\ Called("_increment_counter", counter, _increment_counter(counter))

\* counter = self._increment_counter(counter), on the value just returned
IncrementAgain ==
  /\ last.op = "_increment_counter"
  /\ last.exc = "none"
  /\ ncalls < MaxCalls
  /\ Called("_increment_counter", last.ret, _increment_counter(last.ret))

NextCtr ==
  \/ \E counter \in CounterInputs : IncrementCounter(counter)
  \/ IncrementAgain

SpecCtr == InitCtr /\ [][NextCtr]_vars

(***************************************************************************)
(* SpecShared: calls of encrypt and decrypt on ONE session, sender, one    *)
(* after another and interleaved statement group by statement group.  A    *)
(* second session, receiver, is constructed from the same arguments and    *)
(* never called.  Sessions are made as in SpecGCM.                         *)
(***************************************************************************)
\* self after a statement group of encrypt ran in frame f, which assigns
\* no attribute of self
encrypt_self_counter(self, f) == [self EXCEPT !.initial_counter = f.counter]

encrypt_self(self, f) == self

\* self after a statement group of decrypt ran in frame f
decrypt_self(self, f) == self

\* the next statement group of the encrypt call in frame f
encrypt_step(self, f) ==
  IF f.i < Len(f.plaintext) THEN encrypt_loop(self, f)
  ELSE encrypt_finish(self, f)

\* the next statement group of the decrypt call in frame f
decrypt_step(self, f) ==
  CASE f.pc = "length" -> decrypt_check_length(self, f)
    [] f.pc = "unmask" -> decrypt_unmask(self, f)
    [] f.pc = "ghash" -> decrypt_ghash(self, f)
    [] f.pc = "compare" -> decrypt_compare(self, f)
    [] f.pc = "ctr" -> IF f.i < Len(f.ciphertext) THEN decrypt_loop(self, f)
                       ELSE decrypt_return(f)

SharedPlaintexts == {Message(1), Message(16 * (MaxBlocks - 1) + 1)}

InitShared == obj = NoObject /\ Idle

\* the encrypt frame becomes f, with n calls started
EncryptMoves(f, n) ==
  /\ enc' = f
  /\ sender' = encrypt_self(sender, f)
  /\ ncalls' = n
  /\ UNCHANGED <<obj, new, last, prev, tcall, receiver, dec, wire>>

\* the decrypt frame becomes f, with n calls started
DecryptMoves(f, n) ==
  /\ dec' = f
  /\ sender' = decrypt_self(sender, f)
  /\ ncalls' = n
  /\ UNCHANGED <<obj, new, last, prev, tcall, receiver, enc, wire>>

\* sender.encrypt(plaintext, auth_data) is entered, the last one finished
SharedEncrypt(plaintext, auth_data) ==
  /\ HasAttr(sender.H)
  /\ enc.pc \in {"idle", "done", "raised"}
  /\ ncalls <= MaxCalls
  /\ EncryptMoves(encrypt_begin(sender, plaintext, auth_data), ncalls + 1)

SharedEncryptStep ==
  /\ enc.pc = "ctr"
  /\ EncryptMoves(encrypt_step(sender, enc), ncalls)

\* sender.decrypt is entered with a message sender.encrypt returned
SharedDecrypt ==
  /\ wire.sent
  /\ dec.pc \in {"idle", "done", "raised"}
  /\ ncalls <= MaxCalls
  /\ DecryptMoves(decrypt_begin(wire.ciphertext, wire.tag, wire.auth_data),
                  ncalls + 1)

SharedDecryptStep ==
  /\ dec.pc \in {"length", "unmask", "ghash", "compare", "ctr"}
  /\ DecryptMoves(decrypt_step(sender, dec), ncalls)

NextShared ==
  \/ \E key \in Keys, t \in TagLengths : Setup(key, Nonce12, t, t)
  \/ \E plaintext \in SharedPlaintexts : SharedEncrypt(plaintext, Header(3))
  \/ SharedEncryptStep
  \/ Send
  \/ SharedDecrypt
  \/ SharedDecryptStep

SpecShared == InitShared /\ [][NextShared]_vars

(***************************************************************************)
(* Properties.                                                             *)
(***************************************************************************)

RoundTripHolds ==
  (/\ last.op = "decrypt_block" /\ last.exc = "none"
   /\ prev.op = "encrypt_block" /\ prev.exc = "none"
   /\ last.arg = prev.ret)
  => last.ret = prev.arg

\* a block was encrypted and the result decrypted
RoundTripSeen ==
  /\ obj.cls = "SM4"
  /\ prev.op = "encrypt_block" /\ prev.exc = "none" /\ prev.arg = Block2
  /\ last.op = "decrypt_block" /\ last.exc = "none" /\ last.arg = prev.ret
  /\ last.ret = Block2

\* C4: once the tables are built, the table lookup returns for a word what
\* the substitute-then-rotate T function returns for it.
TableTEqualsBasicT ==
  (HasAttr(obj.T_table) /\ tcall.x # << >>) => tcall.table = tcall.basic

\* both T functions were applied to a word after the tables were built
TableTSeen ==
  /\ HasAttr(obj.T_table)
  /\ tcall.x = <<200, 29, 95, 55>>
  /\ tcall.table.exc = "none"
  /\ tcall.table = tcall.basic

\* what SM4Optimized(key) leaves is what the basic cipher made from the
\* same key holds and computes
SameAsBasic(basic) ==
  /\ basic.exc = "none"
  /\ obj.round_keys = basic.val.round_keys
  /\ (last.op = "encrypt_block" /\ Len(last.arg) = 16)
       => (last.exc = "none"
           /\ last.ret = encrypt_block(basic.val, last.arg).val)
  /\ (last.op = "decrypt_block" /\ Len(last.arg) = 16)
       => (last.exc = "none"
           /\ last.ret = decrypt_block(basic.val, last.arg).val)

\* C5: SM4Optimized(key) with a 16-byte key completes, holds the round keys
\* of the basic cipher and returns the same bytes for every block.
OptimizedDropIn ==
  (new.cls = "SM4Optimized" /\ Len(new.key) = 16)
  => (new.exc = "none" /\ SameAsBasic(SM4_init("SM4", new.key)))

\* C6: the basic cipher with the key of the standard's example encrypts the
\* example block to the example ciphertext and decrypts it back.
KnownAnswer ==
  (new.cls = "SM4" /\ new.key = Key1 /\ new.exc = "none")
  => /\ (last.op = "encrypt_block" /\ last.arg = Block1)
          => (last.exc = "none" /\ last.ret = Cipher1)
     /\ (last.op = "decrypt_block" /\ last.arg = Cipher1)
          => (last.exc = "none" /\ last.ret = Block1)

TruncatedTag(self, f, mask) ==
  Slice(XorZip(_ghash(f.auth_data, f.ciphertext, self.H), mask.val),
        self.tag_length)

\* C9: between ends that agree on a tag length below 16, encrypt returns
\* that many leading bytes of the full tag, and decrypt accepts them and
\* returns the plaintext.
TruncatedTagRoundTrip ==
  (/\ Len(new.nonce) = 12
   /\ sender.tag_length = receiver.tag_length
   /\ sender.tag_length \in 1..15
   /\ wire.flipped = "none")
  => /\ enc.pc = "done"
          => /\ Len(enc.tag) = sender.tag_length
             /\ enc.tag = TruncatedTag(sender, enc,
                            encrypt_block(sender.sm4, sender.initial_counter))
     /\ dec.pc \in {"done", "raised"}
          => (dec.pc = "done" /\ dec.plaintext = enc.plaintext)

\* the session holds H = E(0^128) and initial_counter = GHASH_H(nonce)
DerivedCounter(self, h) ==
  /\ h.exc = "none"
  /\ self.H = h.val
  /\ self.initial_counter = _ghash(self.nonce, << >>, h.val)
  /\ Len(self.initial_counter) = 16

\* C10: the construction of a session with a nonce of another length than
\* 12 completes, with H derived and the initial counter the GHASH of the
\* nonce under it.
OtherNonceSupported ==
  (new.cls = "SM4GCM" /\ Len(new.key) = 16 /\ Len(new.nonce) # 12)
  => /\ new.exc = "none"
     /\ DerivedCounter(sender, encrypt_block(sender.sm4, Zeros(16)))

\* bytes k and k + 1 of s as a big-endian 16-bit number
Half(s, k) == 256 * s[k] + s[k + 1]

\* C11: _increment_counter returns 16 bytes, the first 12 unchanged and the
\* last 4 the old value plus one modulo 2^32 (low half plus one modulo 2^16,
\* the carry added to the high half modulo 2^16), and raises nothing.
CounterWraps ==
  (last.op = "_increment_counter" /\ Len(last.arg) = 16)
  => /\ last.exc = "none"
     /\ Len(last.ret) = 16
     /\ SubSeq(last.ret, 1, 12) = SubSeq(last.arg, 1, 12)
     /\ Half(last.ret, 15) = (Half(last.arg, 15) + 1) % 65536
     /\ Half(last.ret, 13) =
          (Half(last.arg, 13)
             + (IF Half(last.arg, 15) = 65535 THEN 1 ELSE 0)) % 65536

\* the encrypt call of frame f run alone to its end
RECURSIVE RunEncrypt(_, _)
RunEncrypt(self, f) ==
  IF f.pc # "ctr" THEN f ELSE RunEncrypt(self, encrypt_step(self, f))

\* the decrypt call of frame f run alone to its end
RECURSIVE RunDecrypt(_, _)
RunDecrypt(self, f) ==
  IF f.pc \in {"done", "raised"} THEN f
  ELSE RunDecrypt(self, decrypt_step(self, f))

SboxIsPermutation ==
  HasAttr(obj.Sbox)
  => /\ Len(obj.Sbox) = 256
     /\ \A i \in 1..256 : obj.Sbox[i] \in 0..255
     /\ \A i \in 1..256 : \A j \in 1..256 :
          obj.Sbox[i] = obj.Sbox[j] => i = j

====
